---- MODULE Spec2Model ----
(***************************************************************************)
(* The Citi Bike station dashboard (src/streamlit_app.py): a Streamlit     *)
(* script that is re-executed top to bottom on every user interaction.     *)
(* One execution (a render pass) loads the station table through the      *)
(* memoized load_data(), reads the sidebar widgets, filters the table and  *)
(* renders the metrics, the map, the top-N chart, the data table and the   *)
(* last-updated caption.                                                   *)
(*                                                                         *)
(* A table is [cols, rows]; a row is [idx, cell], idx being the pandas    *)
(* index label (to_pandas gives a RangeIndex, kept by every filter).       *)
(* A cell is Null (None/NaN/NaT), Num(n) or Str(s), s a sequence of        *)
(* one-character strings.                                                  *)
(***************************************************************************)
EXTENDS Integers, Sequences, FiniteSets, TLC

VARIABLES
    universe,      \* which bounded family of warehouse contents and user inputs is explored
    now,           \* wall-clock seconds
    cache,         \* st.cache_data's entries for load_data: <<>> or <<[at, value]>>
    stored,        \* when load_data's body last returned a table (-1: never)
    passes,        \* render passes started so far
    queries,       \* warehouse queries issued so far
    pc,            \* position of the running render pass
    issued,        \* queries issued by the running render pass
    df,            \* the loaded table
    widgets,       \* the widget values read by the running pass
    f,             \* the filtered table
    kpi,           \* the four metric cards
    m,             \* the map's data
    top,           \* the chart's data
    last_updated,  \* the caption's timestamp
    shown,         \* the UI elements the running pass has produced
    err            \* the exception that aborted the running pass, or "none"

vars == <<universe, now, cache, stored, passes, queries, pc, issued, df, widgets, f,
          kpi, m, top, last_updated, shown, err>>

-----------------------------------------------------------------------------
(* Cells *)

Null == [k |-> "null"]
Num(n) == [k |-> "num", n |-> n]
Str(s) == [k |-> "str", s |-> s]

\* A piece of text that is neither a number nor a timestamp.
NaS == Str(<<"x">>)

\* Series.isna / dropna's test.
IsNull(v) == v.k = "null"

\* pd.to_numeric(..., errors="coerce") on one cell: what is not a number becomes NaN.
ToNumeric(v) == IF v.k = "num" THEN v ELSE Null

\* .fillna(0) on one cell.
FillNa0(v) == IF IsNull(v) THEN Num(0) ELSE v

\* pd.to_datetime(..., errors="coerce") on one cell: a timestamp is kept (as its
\* ordinal), anything else becomes NaT.
ToDatetime(v) == IF v.k = "num" THEN v ELSE Null

-----------------------------------------------------------------------------
(* Tables *)

Columns ==
    {"STATION_ID", "STATION_NAME", "REGION_ID", "STATION_TYPE", "CAPACITY",
     "IS_RENTING", "IS_RETURNING", "NUM_BIKES_AVAILABLE", "NUM_DOCKS_AVAILABLE",
     "NUM_EBIKES_AVAILABLE", "LATITUDE", "LONGITUDE", "GOLD_TIMESTAMP",
     "LAST_REPORTED_TS"}

EmptyTable == [cols |-> {}, rows |-> <<>>]

HasCol(t, c) == c \in t.cols

\* t[c]: the column's cells in row order (the caller has checked the column is there).
Col(t, c) == [i \in 1..Len(t.rows) |-> t.rows[i].cell[c]]

\* t.get(c, pd.Series(dtype="float")): the column, or an empty series.
Get(t, c) == IF HasCol(t, c) THEN Col(t, c) ELSE <<>>

Range(s) == {s[i] : i \in 1..Len(s)}

SetMin(S) == CHOOSE x \in S : \A y \in S : x <= y
SetMax(S) == CHOOSE x \in S : \A y \in S : x >= y

RECURSIVE SeqSum(_)
SeqSum(s) == IF s = <<>> THEN 0 ELSE Head(s) + SeqSum(Tail(s))

-----------------------------------------------------------------------------
(* Bounds of the exploration, and the program's constants *)

MaxRows == 2        \* rows of a warehouse table
MaxRankRows == 6    \* rows of a warehouse table in the ranking universe
MaxMissing == 2     \* columns a warehouse table may lack in the columns universe
MaxPasses == 3      \* render passes of one behaviour

TTL == 300          \* @st.cache_data(ttl=300)
TopNMin == 5        \* st.slider("Top N", 5, 50, 15)
TopNMax == 50
TopNDefault == 15


-----------------------------------------------------------------------------
(* The warehouse's possible contents.  The query of load_data names the     *)
(* fourteen columns; a universe varies some of them over a few values and   *)
(* keeps the others at one ordinary value.                                  *)

Universes == {"cache", "capacity", "filters", "metrics", "views", "ranking", "columns"}

Classic == Str(<<"classic">>)
Ebike == Str(<<"ebike">>)

Ordinary(c) ==
    CASE c = "STATION_NAME" -> Str(<<"a", "B">>)
      [] c = "REGION_ID" -> Num(1)
      [] c = "STATION_TYPE" -> Classic
      [] c = "CAPACITY" -> Num(2)
      [] c = "IS_RENTING" -> Num(1)
      [] c = "IS_RETURNING" -> Num(1)
      [] c = "NUM_BIKES_AVAILABLE" -> Num(5)
      [] c = "NUM_DOCKS_AVAILABLE" -> Num(3)
      [] c = "NUM_EBIKES_AVAILABLE" -> Num(1)
      [] c = "LATITUDE" -> Num(40)
      [] c = "LONGITUDE" -> Num(-74)
      [] c = "GOLD_TIMESTAMP" -> Num(10)
      [] c = "LAST_REPORTED_TS" -> Num(10)
      [] OTHER -> Null

Flags == {Null, Num(0), Num(1)}

\* The values column c takes in universe u.
Domain(u, c) ==
    CASE u = "cache" /\ c = "NUM_BIKES_AVAILABLE" -> {Num(0), Num(5)}
      [] u = "capacity" /\ c = "CAPACITY" -> {Null, NaS, Num(0), Num(1), Num(3)}
      [] u = "filters" /\ c = "STATION_NAME" -> {Null, Str(<<"a", "B">>)}
      [] u = "filters" /\ c = "REGION_ID" -> {Num(1), Num(2)}
      [] u = "filters" /\ c = "STATION_TYPE" -> {Classic, Ebike}
      [] u = "filters" /\ c = "IS_RENTING" -> Flags
      [] u = "metrics" /\ c = "NUM_BIKES_AVAILABLE" -> {Null, NaS, Num(2)}
      [] u = "metrics" /\ c = "NUM_DOCKS_AVAILABLE" -> {Null, Num(3)}
      [] u = "views" /\ c = "LATITUDE" -> {Null, Num(40)}
      [] u = "views" /\ c = "LONGITUDE" -> {Null, Num(-74)}
      [] u = "views" /\ c = "STATION_NAME" -> {Null, Str(<<"a", "B">>)}
      [] u = "views" /\ c = "GOLD_TIMESTAMP" -> {Null, NaS, Num(20)}
      [] u = "views" /\ c = "LAST_REPORTED_TS" -> {Null, Num(30)}
      [] u = "ranking" /\ c = "NUM_BIKES_AVAILABLE" -> {Null, Num(5)}
      [] OTHER -> {Ordinary(c)}

Varied(u) == {c \in Columns : Domain(u, c) # {Ordinary(c)}}

\* The column sets the query's result may have: all fourteen, except in the
\* universes that explore a result lacking some.
ColumnSets(u) ==
    CASE u = "columns" ->
           {Columns \ S : S \in {X \in SUBSET Columns : Cardinality(X) <= MaxMissing}}
      [] u = "metrics" ->
           {Columns \ S : S \in SUBSET {"NUM_BIKES_AVAILABLE", "NUM_DOCKS_AVAILABLE",
                                         "NUM_EBIKES_AVAILABLE"}}
      [] OTHER -> {Columns}

\* The rows' cells over the columns cols: the varied columns range over their
\* domains, STATION_ID is filled in by MkTable.
CellRows(u, cols) ==
    LET V == Varied(u) \cap cols
        Values == UNION {Domain(u, c) : c \in V}
        Picks == {g \in [V -> Values] : \A c \in V : g[c] \in Domain(u, c)}
    IN  {[c \in cols |-> IF c \in V THEN g[c] ELSE Ordinary(c)] : g \in Picks}

MaxLen(u) == IF u = "ranking" THEN MaxRankRows ELSE MaxRows

\* to_pandas(): row i gets index label i - 1; the station identifier is the key.
MkTable(cols, cells) ==
    [cols |-> cols,
     rows |-> [i \in 1..Len(cells) |->
                 [idx |-> i - 1,
                  cell |-> [c \in cols |->
                              IF c = "STATION_ID" THEN Num(i) ELSE cells[i][c]]]]]

Tables(u) ==
    UNION {{MkTable(cols, cells) :
              cells \in UNION {[1..n -> CellRows(u, cols)] : n \in 0..MaxLen(u)}} :
           cols \in ColumnSets(u)}

\* The widgets the user moves in universe u; the others stay at their defaults.
Touched(u) ==
    CASE u = "capacity" -> {"cap"}
      [] u = "filters" -> {"region", "type", "renting", "search"}
      [] u = "metrics" -> {"renting"}
      [] u = "views" -> {"returning"}
      [] u = "columns" -> {"type"}
      [] OTHER -> {"returning"}

SearchTexts == {<<"c">>, <<"A", "b">>, <<".">>}

\* Seconds between the end of one render pass and the user's next interaction.
Delays(u) == IF u = "cache" THEN {1, TTL - 1} ELSE {TTL - 1}

\* The values the Top N slider returns.
TopNs(u) ==
    CASE u = "cache" -> {TopNMin, TopNMax}
      [] u = "ranking" -> {TopNMin}
      [] OTHER -> {TopNDefault}

-----------------------------------------------------------------------------
(* load_data and its cache *)

\* An entry that is still served when exactly TTL seconds old.
FreshInclusive(e, t) == t <= e.at + TTL

\* st.cache_data(ttl=300): an entry stored at e.at is served while fewer than
\* TTL seconds have passed, and is gone from then on.
Fresh(e, t) == t < e.at + TTL

\* load_data takes no arguments: the cache has one key, so at most one entry.
CacheHit == cache # <<>> /\ Fresh(cache[1], now)

-----------------------------------------------------------------------------
(* Sidebar filters setup *)

All == Str(<<"All">>)

regions(t) ==
    IF HasCol(t, "REGION_ID")
    THEN {v \in Range(Col(t, "REGION_ID")) : ~IsNull(v)}
    ELSE {}

types(t) ==
    IF HasCol(t, "STATION_TYPE")
    THEN {v \in Range(Col(t, "STATION_TYPE")) : ~IsNull(v)}
    ELSE {}

\* The numbers of cap_series, NaN dropped.
cap_numbers(t) ==
    LET cap_series == [i \in DOMAIN Get(t, "CAPACITY") |-> ToNumeric(Get(t, "CAPACITY")[i])]
    IN  {v.n : v \in {x \in Range(cap_series) : ~IsNull(x)}}

cap_min(t) == IF cap_numbers(t) # {} THEN SetMin(cap_numbers(t)) ELSE 0
cap_max(t) == IF cap_numbers(t) # {} THEN SetMax(cap_numbers(t)) ELSE 0

\* What each widget shows before the user moves it.
DefaultCapRng(t) == IF cap_max(t) > 0 THEN <<cap_min(t), cap_max(t)>> ELSE <<0, 0>>

\* The values each sidebar widget can return for the loaded table t.
RegionChoices(t) == IF regions(t) # {} THEN SUBSET regions(t) ELSE {{}}
TypeChoices(t) == IF types(t) # {} THEN {All} \cup types(t) ELSE {All}
CapChoices(t) ==
    IF cap_max(t) > 0
    THEN {<<lo, hi>> \in (cap_min(t)..cap_max(t)) \X (cap_min(t)..cap_max(t)) : lo <= hi}
    ELSE {<<0, 0>>}
RentingChoices(t) == IF HasCol(t, "IS_RENTING") THEN {"All", "Yes", "No"} ELSE {"All"}
ReturningChoices(t) == IF HasCol(t, "IS_RETURNING") THEN {"All", "Yes", "No"} ELSE {"All"}

\* The sidebar as the user may have set it in universe u.
SidebarChoices(u, t) ==
    LET on(w, S, d) == IF w \in Touched(u) THEN S ELSE {d}
    IN  [sel_regions : on("region", RegionChoices(t), {}),
         sel_type : on("type", TypeChoices(t), All),
         cap_rng : on("cap", CapChoices(t), DefaultCapRng(t)),
         renting_opt : on("renting", RentingChoices(t), "All"),
         returning_opt : on("returning", ReturningChoices(t), "All"),
         search : on("search", SearchTexts \cup {<<>>}, <<>>),
         top_n : {0}]

NoWidgets ==
    [sel_regions |-> {}, sel_type |-> All, cap_rng |-> <<0, 0>>, renting_opt |-> "All",
     returning_opt |-> "All", search |-> <<>>, top_n |-> 0]

-----------------------------------------------------------------------------
(* Apply filters *)

Lower(ch) == CASE ch = "A" -> "a" [] ch = "B" -> "b" [] ch = "C" -> "c" [] OTHER -> ch

\* re.search(pat, s, re.IGNORECASE) for a pattern of literal characters and ".":
\* Series.str.contains takes its pattern as a regular expression (regex=True is
\* the default), in which "." stands for any character.
RegexSearch(pat, s) ==
    \E i \in 0..(Len(s) - Len(pat)) :
        \A j \in 1..Len(pat) : pat[j] = "." \/ Lower(pat[j]) = Lower(s[i + j])

\* Series.str.contains(search, case=False, na=False) on one cell.
StrContains(v, search) == v.k = "str" /\ RegexSearch(search, v.s)

\* Series.astype("Int64") == want on one cell; <NA> selects nothing.
FlagIs(v, opt) == v.k = "num" /\ v.n = (IF opt = "Yes" THEN 1 ELSE 0)

\* The range test with its lower end left out (> for >=).
InCapRngExclusive(v, rng) ==
    /\ ~IsNull(ToNumeric(v))
    /\ ToNumeric(v).n > rng[1]
    /\ ToNumeric(v).n <= rng[2]

\* (cap_vals >= cap_rng[0]) & (cap_vals <= cap_rng[1]) on one cell; NaN compares false.
InCapRng(v, rng) ==
    /\ ~IsNull(ToNumeric(v))
    /\ ToNumeric(v).n >= rng[1]
    /\ ToNumeric(v).n <= rng[2]

ByRegion(t, w) ==
    IF regions(t) # {} /\ w.sel_regions # {}
    THEN LET Mask(r) == r.cell["REGION_ID"] \in w.sel_regions IN [t EXCEPT !.rows = SelectSeq(t.rows, Mask)]
    ELSE t

ByType(t, w) ==
    IF w.sel_type # All /\ HasCol(t, "STATION_TYPE")
    THEN LET Mask(r) == r.cell["STATION_TYPE"] = w.sel_type IN [t EXCEPT !.rows = SelectSeq(t.rows, Mask)]
    ELSE t

\* cap_max is the loaded table's, computed before any filter ran.
ByCapacity(t, w, capmax) ==
    IF HasCol(t, "CAPACITY") /\ capmax > 0
    THEN LET Mask(r) == InCapRng(r.cell["CAPACITY"], w.cap_rng) IN [t EXCEPT !.rows = SelectSeq(t.rows, Mask)]
    ELSE t

ByRenting(t, w) ==
    IF w.renting_opt # "All" /\ HasCol(t, "IS_RENTING")
    THEN LET Mask(r) == FlagIs(r.cell["IS_RENTING"], w.renting_opt) IN [t EXCEPT !.rows = SelectSeq(t.rows, Mask)]
    ELSE t

ByReturning(t, w) ==
    IF w.returning_opt # "All" /\ HasCol(t, "IS_RETURNING")
    THEN LET Mask(r) == FlagIs(r.cell["IS_RETURNING"], w.returning_opt) IN [t EXCEPT !.rows = SelectSeq(t.rows, Mask)]
    ELSE t

BySearch(t, w) ==
    IF w.search # <<>> /\ HasCol(t, "STATION_NAME")
    THEN LET Mask(r) == StrContains(r.cell["STATION_NAME"], w.search) IN [t EXCEPT !.rows = SelectSeq(t.rows, Mask)]
    ELSE t

\* f = df.copy() and the six filters, in the script's order.
Filtered(t, w) ==
    LET f1 == ByRegion(t, w)
        f2 == ByType(f1, w)
        f3 == ByCapacity(f2, w, cap_max(t))
        f4 == ByRenting(f3, w)
        f5 == ByReturning(f4, w)
    IN  BySearch(f5, w)

-----------------------------------------------------------------------------
(* KPI cards *)

\* int(pd.to_numeric(f.get(c, empty), errors="coerce").fillna(0).sum())
SumCol(t, c) ==
    SeqSum([i \in DOMAIN Get(t, c) |-> FillNa0(ToNumeric(Get(t, c)[i])).n])

\* The docks card summing the bikes column (a line copied and not edited).
MetricsBikesTwice(t) ==
    [stations |-> Len(t.rows),
     bikes |-> SumCol(t, "NUM_BIKES_AVAILABLE"),
     docks |-> SumCol(t, "NUM_BIKES_AVAILABLE"),
     ebikes |-> SumCol(t, "NUM_EBIKES_AVAILABLE")]

Metrics(t) ==
    [stations |-> Len(t.rows),
     bikes |-> SumCol(t, "NUM_BIKES_AVAILABLE"),
     docks |-> SumCol(t, "NUM_DOCKS_AVAILABLE"),
     ebikes |-> SumCol(t, "NUM_EBIKES_AVAILABLE")]

NoMetrics == [stations |-> 0, bikes |-> 0, docks |-> 0, ebikes |-> 0]

-----------------------------------------------------------------------------
(* Map *)

MapSource == {"LATITUDE", "LONGITUDE", "STATION_NAME"}

\* f[["LATITUDE", "LONGITUDE", "STATION_NAME"]].dropna(): a row goes when any of
\* the three cells is missing.
DropNa(r) == \A c \in MapSource : ~IsNull(r.cell[c])

\* ... .rename(columns={"LATITUDE": "lat", "LONGITUDE": "lon"})
MapData(t) ==
    LET Project(r) ==
            [idx |-> r.idx,
             cell |-> [c \in {"lat", "lon", "STATION_NAME"} |->
                         CASE c = "lat" -> r.cell["LATITUDE"]
                           [] c = "lon" -> r.cell["LONGITUDE"]
                           [] OTHER -> r.cell["STATION_NAME"]]]
        kept == SelectSeq(t.rows, DropNa)
    IN  [cols |-> {"lat", "lon", "STATION_NAME"},
         rows |-> [i \in 1..Len(kept) |-> Project(kept[i])]]

-----------------------------------------------------------------------------
(* Top stations by bikes available *)

\* .assign(NUM_BIKES_AVAILABLE=pd.to_numeric(...).fillna(0)) on the two columns.
ChartRows(t) ==
    [i \in 1..Len(t.rows) |->
        [idx |-> t.rows[i].idx,
         cell |-> [c \in {"STATION_NAME", "NUM_BIKES_AVAILABLE"} |->
                     IF c = "NUM_BIKES_AVAILABLE"
                     THEN FillNa0(ToNumeric(t.rows[i].cell[c]))
                     ELSE t.rows[i].cell[c]]]]

\* The order of sort_values without ascending=False.
BeforeAscending(a, b) == a.cell["NUM_BIKES_AVAILABLE"].n <= b.cell["NUM_BIKES_AVAILABLE"].n

\* The order sort_values("NUM_BIKES_AVAILABLE", ascending=False) puts two rows in.
Before(a, b) == a.cell["NUM_BIKES_AVAILABLE"].n >= b.cell["NUM_BIKES_AVAILABLE"].n

\* .sort_values(...).head(n): sort_values sorts with kind="quicksort" unless told
\* otherwise, which pandas documents as not stable, so rows with equal values
\* come out in any order.  The first n rows of every order the sort may produce.
RECURSIVE SortHead(_, _, _)
SortHead(rows, S, n) ==
    IF S = {} \/ n = 0
    THEN {<<>>}
    ELSE UNION {{<<rows[i]>> \o rest : rest \in SortHead(rows, S \ {i}, n - 1)} :
                i \in {j \in S : \A k \in S : Before(rows[j], rows[k])}}

TopData(t, n) ==
    {[cols |-> {"STATION_NAME", "NUM_BIKES_AVAILABLE"}, rows |-> s] :
        s \in SortHead(ChartRows(t), DOMAIN ChartRows(t), n)}

-----------------------------------------------------------------------------
(* Last updated caption *)

\* pd.to_datetime(f["GOLD_TIMESTAMP"], errors="coerce").max(): NaT when nothing parses.
LastUpdated(t) ==
    LET parsed == {ToDatetime(v).n : v \in {x \in Range(Col(t, "GOLD_TIMESTAMP")) :
                                              ~IsNull(ToDatetime(x))}}
    IN  IF parsed = {} THEN Null ELSE Num(SetMax(parsed))

-----------------------------------------------------------------------------
(* The render pass *)

InitIn(u) ==
    /\ universe = u
    /\ now = 0
    /\ cache = <<>>
    /\ stored = -1
    /\ passes = 1
    /\ queries = 0
    /\ pc = "start"
    /\ issued = 0
    /\ df = EmptyTable
    /\ widgets = NoWidgets
    /\ f = EmptyTable
    /\ kpi = NoMetrics
    /\ m = EmptyTable
    /\ top = EmptyTable
    /\ last_updated = Null
    /\ shown = {}
    /\ err = "none"

Init == \E u \in Universes : InitIn(u)

\* df = load_data(), served from the cache.
LoadHit ==
    /\ pc = "start"
    /\ CacheHit
    /\ df' = cache[1].value
    /\ pc' = "loaded"
    /\ UNCHANGED <<universe, now, cache, stored, passes, queries, issued, widgets, f, kpi, m,
                   top, last_updated, shown, err>>

\* df = load_data(), the function body runs: the query succeeds and its result
\* is stored under the one key.
LoadMiss ==
    /\ pc = "start"
    /\ ~CacheHit
    /\ \E t \in Tables(universe) :
          /\ df' = t
          /\ cache' = <<[at |-> now, value |-> t]>>
    /\ stored' = now
    /\ queries' = queries + 1
    /\ issued' = issued + 1
    /\ pc' = "loaded"
    /\ UNCHANGED <<universe, now, passes, widgets, f, kpi, m, top, last_updated,
                   shown, err>>

\* A load_data that stores an empty table before the failure leaves it.
LoadFailStoresEmpty ==
    /\ pc = "start"
    /\ ~CacheHit
    /\ queries' = queries + 1
    /\ issued' = issued + 1
    /\ cache' = <<[at |-> now, value |-> EmptyTable]>>
    /\ err' = "QueryError"
    /\ pc' = "error"
    /\ UNCHANGED <<universe, now, stored, passes, df, widgets, f, kpi, m, top,
                   last_updated, shown>>

\* df = load_data(), the function body runs: session.sql(...).to_pandas() raises.
\* Nothing catches it, nothing is stored, the script stops.
LoadFail ==
    /\ pc = "start"
    /\ ~CacheHit
    /\ queries' = queries + 1
    /\ issued' = issued + 1
    /\ err' = "QueryError"
    /\ pc' = "error"
    /\ UNCHANGED <<universe, now, cache, stored, passes, df, widgets, f, kpi, m, top,
                   last_updated, shown>>

\* The sidebar widgets are read and the six filters applied.
ApplyFilters ==
    /\ pc = "loaded"
    /\ \E w \in SidebarChoices(universe, df) :
          /\ widgets' = w
          /\ f' = Filtered(df, w)
    /\ pc' = "filtered"
    /\ UNCHANGED <<universe, now, cache, stored, passes, queries, issued, df, kpi, m, top,
                   last_updated, shown, err>>

\* The four metric cards.
KpiCards ==
    /\ pc = "filtered"
    /\ kpi' = Metrics(f)
    /\ shown' = shown \cup {"metrics"}
    /\ pc' = "metrics"
    /\ UNCHANGED <<universe, now, cache, stored, passes, queries, issued, df, widgets, f, m,
                   top, last_updated, err>>

\* The map, when f has both coordinate columns.  Selecting STATION_NAME from a
\* table without that column raises KeyError.  st.map is handed m and the name
\* CAPACITY for the marker size; m has the three columns of MapData only.
Map ==
    /\ pc = "metrics"
    /\ IF ~({"LATITUDE", "LONGITUDE"} \subseteq f.cols)
       THEN /\ pc' = "map"
            /\ UNCHANGED <<m, shown, err>>
       ELSE IF ~HasCol(f, "STATION_NAME")
       THEN /\ pc' = "error"
            /\ err' = "KeyError"
            /\ UNCHANGED <<m, shown>>
       ELSE /\ pc' = "map"
            /\ m' = MapData(f)
            /\ shown' = shown \cup {"map"}
            /\ UNCHANGED err
    /\ UNCHANGED <<universe, now, cache, stored, passes, queries, issued, df, widgets, f, kpi,
                   top, last_updated>>

\* The Top N slider is read; the chart is drawn when f has both of its columns.
TopChart ==
    /\ pc = "map"
    /\ \E n \in TopNs(universe) :
          /\ widgets' = [widgets EXCEPT !.top_n = n]
          /\ IF HasCol(f, "STATION_NAME") /\ HasCol(f, "NUM_BIKES_AVAILABLE")
             THEN /\ top' \in TopData(f, n)
                  /\ shown' = shown \cup {"chart"}
             ELSE UNCHANGED <<top, shown>>
    /\ pc' = "chart"
    /\ UNCHANGED <<universe, now, cache, stored, passes, queries, issued, df, f, kpi, m,
                   last_updated, err>>

\* st.dataframe(f)
DataTable ==
    /\ pc = "chart"
    /\ shown' = shown \cup {"table"}
    /\ pc' = "table"
    /\ UNCHANGED <<universe, now, cache, stored, passes, queries, issued, df, widgets, f, kpi,
                   m, top, last_updated, err>>

\* The caption.  f["GOLD_TIMESTAMP"] on a table without that column raises KeyError.
Caption ==
    /\ pc = "table"
    /\ IF ~HasCol(f, "GOLD_TIMESTAMP")
       THEN /\ pc' = "error"
            /\ err' = "KeyError"
            /\ UNCHANGED <<last_updated, shown>>
       ELSE /\ pc' = "done"
            /\ last_updated' = LastUpdated(f)
            /\ shown' = IF IsNull(LastUpdated(f)) THEN shown ELSE shown \cup {"caption"}
            /\ UNCHANGED err
    /\ UNCHANGED <<universe, now, cache, stored, passes, queries, issued, df, widgets, f, kpi,
                   m, top>>

\* The user interacts d seconds after the pass ended: the script runs again from
\* its first line.  An entry that is no longer fresh is gone from the cache.
Rerun ==
    /\ pc \in {"done", "error"}
    /\ passes < MaxPasses
    /\ \E d \in Delays(universe) :
          /\ now' = now + d
          /\ cache' = SelectSeq(cache, LAMBDA e : Fresh(e, now + d))
    /\ passes' = passes + 1
    /\ pc' = "start"
    /\ issued' = 0
    /\ df' = EmptyTable
    /\ widgets' = NoWidgets
    /\ f' = EmptyTable
    /\ kpi' = NoMetrics
    /\ m' = EmptyTable
    /\ top' = EmptyTable
    /\ last_updated' = Null
    /\ shown' = {}
    /\ err' = "none"
    /\ UNCHANGED <<universe, stored, queries>>

Next ==
    \/ LoadHit
    \/ LoadMiss
    \/ LoadFail
    \/ ApplyFilters
    \/ KpiCards
    \/ Map
    \/ TopChart
    \/ DataTable
    \/ Caption
    \/ Rerun

Spec == Init /\ [][Next]_vars

SpecCache == InitIn("cache") /\ [][Next]_vars
SpecCapacity == InitIn("capacity") /\ [][Next]_vars
SpecFilters == InitIn("filters") /\ [][Next]_vars
SpecMetrics == InitIn("metrics") /\ [][Next]_vars
SpecViews == InitIn("views") /\ [][Next]_vars
SpecRanking == InitIn("ranking") /\ [][Next]_vars
SpecColumns == InitIn("columns") /\ [][Next]_vars

-----------------------------------------------------------------------------
(* What the claims speak of, stated from the table and the widget values     *)
(* alone.                                                                    *)

\* The running pass has computed f.
FilterRan == pc \notin {"start", "loaded"} /\ err # "QueryError"

Cell(r, c) == r.cell[c]
IsNumber(v) == v.k = "num"

\* The six controls at their "no restriction" value.
OthersUnrestricted ==
    /\ widgets.sel_regions = {}
    /\ widgets.sel_type = All
    /\ widgets.renting_opt = "All"
    /\ widgets.returning_opt = "All"
    /\ widgets.search = <<>>

\* The largest numeric capacity of the loaded table is positive.
HasPositiveCapacity ==
    /\ "CAPACITY" \in df.cols
    /\ \E i \in DOMAIN df.rows :
          IsNumber(Cell(df.rows[i], "CAPACITY")) /\ Cell(df.rows[i], "CAPACITY").n > 0

\* The slider's default: the full range of the numeric capacities.
CapacityAtDefault ==
    \/ ~HasPositiveCapacity
    \/ /\ \A i \in DOMAIN df.rows :
             IsNumber(Cell(df.rows[i], "CAPACITY")) =>
                 /\ widgets.cap_rng[1] <= Cell(df.rows[i], "CAPACITY").n
                 /\ Cell(df.rows[i], "CAPACITY").n <= widgets.cap_rng[2]
       /\ \E i \in DOMAIN df.rows : Cell(df.rows[i], "CAPACITY") = Num(widgets.cap_rng[1])
       /\ \E i \in DOMAIN df.rows : Cell(df.rows[i], "CAPACITY") = Num(widgets.cap_rng[2])

\* s contains the text, letter case ignored, the text taken literally.
ContainsText(s, text) ==
    \E i \in 0..(Len(s) - Len(text)) :
        \A j \in 1..Len(text) : Lower(text[j]) = Lower(s[i + j])

\* A row satisfies every active filter other than the capacity range.
MatchesSelections(r) ==
    /\ widgets.sel_regions # {} => Cell(r, "REGION_ID") \in widgets.sel_regions
    /\ widgets.sel_type # All => Cell(r, "STATION_TYPE") = widgets.sel_type
    /\ widgets.renting_opt = "Yes" => Cell(r, "IS_RENTING") = Num(1)
    /\ widgets.renting_opt = "No" => Cell(r, "IS_RENTING") = Num(0)
    /\ widgets.returning_opt = "Yes" => Cell(r, "IS_RETURNING") = Num(1)
    /\ widgets.returning_opt = "No" => Cell(r, "IS_RETURNING") = Num(0)
    /\ widgets.search # <<>> =>
          /\ Cell(r, "STATION_NAME").k = "str"
          /\ ContainsText(Cell(r, "STATION_NAME").s, widgets.search)

\* A row's capacity is a number inside the slider's range.
WithinCapacity(r) ==
    /\ IsNumber(Cell(r, "CAPACITY"))
    /\ widgets.cap_rng[1] <= Cell(r, "CAPACITY").n
    /\ Cell(r, "CAPACITY").n <= widgets.cap_rng[2]

-----------------------------------------------------------------------------
(* C1: with the six filter controls at their "no restriction" value (no      *)
(* region, type "All", the capacity slider at its default full range,        *)
(* renting "All", returning "All", empty search) the filtered table f        *)
(* equals the loaded table df row for row, whatever cells are missing.       *)
C1_NoRestrictionKeepsAll ==
    (FilterRan /\ OthersUnrestricted /\ CapacityAtDefault) => f = df

-----------------------------------------------------------------------------
(* C2: f holds exactly the rows of df that satisfy the conjunction of the    *)
(* active filters: region membership, station type equality, renting and     *)
(* returning flags equal to 1 for "Yes" and 0 for "No" (a missing flag       *)
(* matches neither), and the search text contained in a non-missing name,    *)
(* letter case ignored.  The rows of df are those the capacity range keeps.  *)
C2_ExactlyTheMatchingRows ==
    (FilterRan /\ df.cols = Columns /\ \A i \in DOMAIN df.rows : WithinCapacity(df.rows[i]))
        => f = [df EXCEPT !.rows = SelectSeq(df.rows, MatchesSelections)]

-----------------------------------------------------------------------------
(* C3: with the other filters unrestricted and the loaded table's largest    *)
(* numeric capacity above 0, for every slider range [low, high] a row of df  *)
(* is in f exactly when its capacity is a number c with low <= c <= high;    *)
(* rows whose capacity is missing or not a number are excluded.              *)
C3_CapacityRange ==
    (FilterRan /\ OthersUnrestricted /\ HasPositiveCapacity)
        => f = [df EXCEPT !.rows = SelectSeq(df.rows, WithinCapacity)]

\* A two-row table of which a narrowed range keeps one numeric row and drops
\* the other numeric row; and one whose non-numeric row is dropped.
C3_Witness ==
    /\ pc = "filtered"
    /\ OthersUnrestricted
    /\ HasPositiveCapacity
    /\ Len(df.rows) = 2
    /\ Len(f.rows) = 1
    /\ \A i \in DOMAIN df.rows : IsNumber(Cell(df.rows[i], "CAPACITY"))
    /\ widgets.cap_rng[1] = widgets.cap_rng[2]
    /\ ~CapacityAtDefault

-----------------------------------------------------------------------------
(* C4: whatever subset of the fourteen columns the loaded table lacks, the   *)
(* render pass completes without raising: each consumer of a column checks   *)
(* that the column is there and otherwise skips its element or counts the    *)
(* column as empty.  (A pass stops early only when the query itself fails.)  *)
C4_MissingColumnsNeverRaise == pc = "error" => err = "QueryError"

-----------------------------------------------------------------------------
(* C5: the caption shows the largest parseable value over all the timestamp  *)
(* columns the filtered table has (gold, raw, last-reported), and is left    *)
(* out only when no value of any of them parses.                             *)
TimestampColumns == {"GOLD_TIMESTAMP", "RAW_TIMESTAMP", "LAST_REPORTED_TS"}

Stamps(t) ==
    {Cell(t.rows[i], c).n :
        <<i, c>> \in {x \in (DOMAIN t.rows) \X (TimestampColumns \cap t.cols) :
                        IsNumber(Cell(t.rows[x[1]], x[2]))}}

C5_CaptionIsFreshestTimestamp ==
    pc = "done" =>
        IF Stamps(f) = {}
        THEN "caption" \notin shown
        ELSE /\ "caption" \in shown
             /\ last_updated = Num(SetMax(Stamps(f)))

-----------------------------------------------------------------------------
(* C8: when f has the latitude and longitude columns, the map's data is      *)
(* exactly the rows of f with both coordinates present, in order, projected  *)
(* to (lat, lon, name): a row is dropped if and only if a coordinate is      *)
(* missing.                                                                  *)
HasCoordinates(r) == ~IsNull(Cell(r, "LATITUDE")) /\ ~IsNull(Cell(r, "LONGITUDE"))

C8_MapHoldsRowsWithCoordinates ==
    (pc \in {"map", "chart", "table", "done"} /\ {"LATITUDE", "LONGITUDE"} \subseteq f.cols)
        => LET located == SelectSeq(f.rows, HasCoordinates)
           IN  /\ "map" \in shown
               /\ Len(m.rows) = Len(located)
               /\ \A i \in DOMAIN located :
                     /\ m.rows[i].idx = located[i].idx
                     /\ m.rows[i].cell["lat"] = Cell(located[i], "LATITUDE")
                     /\ m.rows[i].cell["lon"] = Cell(located[i], "LONGITUDE")
                     /\ m.rows[i].cell["STATION_NAME"] = Cell(located[i], "STATION_NAME")

-----------------------------------------------------------------------------
(* C9: the Stations metric is the row count of f, and each of the bikes,     *)
(* docks and e-bikes metrics is the sum of its column over the rows of f     *)
(* with every missing or non-numeric cell counted as zero; an all-missing    *)
(* column, an absent column and an empty table give 0, and nothing raises.   *)
RECURSIVE NumbersUpTo(_, _, _)
NumbersUpTo(t, c, i) ==
    IF i = 0 \/ c \notin t.cols
    THEN 0
    ELSE NumbersUpTo(t, c, i - 1)
         + (IF IsNumber(Cell(t.rows[i], c)) THEN Cell(t.rows[i], c).n ELSE 0)

C9_Metrics ==
    (pc \in {"metrics", "map", "chart", "table", "done"} => "metrics" \in shown)
    /\ ("metrics" \in shown =>
          /\ kpi.stations = Cardinality(DOMAIN f.rows)
          /\ kpi.bikes = NumbersUpTo(f, "NUM_BIKES_AVAILABLE", Len(f.rows))
          /\ kpi.docks = NumbersUpTo(f, "NUM_DOCKS_AVAILABLE", Len(f.rows))
          /\ kpi.ebikes = NumbersUpTo(f, "NUM_EBIKES_AVAILABLE", Len(f.rows)))

\* Two rows, the docks column absent, a bikes cell that is not a number next to
\* one that is.
C9_Witness ==
    /\ pc = "metrics"
    /\ Len(f.rows) = 2
    /\ "NUM_DOCKS_AVAILABLE" \notin f.cols
    /\ {"NUM_BIKES_AVAILABLE", "NUM_EBIKES_AVAILABLE"} \subseteq f.cols
    /\ Cell(f.rows[1], "NUM_BIKES_AVAILABLE") = NaS
    /\ Cell(f.rows[2], "NUM_BIKES_AVAILABLE") = Num(2)
    /\ kpi = [stations |-> 2, bikes |-> 2, docks |-> 0, ebikes |-> 2]

-----------------------------------------------------------------------------
-----------------------------------------------------------------------------
(* C10: when the warehouse query inside load_data() fails, the error leaves  *)
(* load_data() uncaught and ends the render pass before any filter, metric,  *)
(* map, chart or table is produced; there is one query and no retry, no      *)
(* partial result and no cache entry, so the next pass queries again.        *)
C10_QueryFailure ==
    /\ [](err = "QueryError" =>
            /\ pc = "error"
            /\ issued = 1
            /\ shown = {}
            /\ df = EmptyTable /\ f = EmptyTable /\ m = EmptyTable /\ top = EmptyTable
            /\ kpi = NoMetrics
            /\ widgets = NoWidgets)
    /\ [][(err = "none" /\ err' = "QueryError") =>
            (queries' = queries + 1 /\ cache' = cache /\ stored' = stored)]_vars
    /\ \A p \in 1..MaxPasses :
          [](err = "QueryError" /\ passes = p =>
                [](passes = p + 1 /\ pc # "start" => issued = 1))

\* The second pass starts one second after the first pass's query failed, and
\* has issued the query again.
C10_Witness ==
    /\ passes = 2
    /\ now = 1
    /\ queries = 2
    /\ issued = 1
    /\ pc = "loaded"
    /\ stored = 1

-----------------------------------------------------------------------------
(* The ranked view of C7.                                                    *)

Bikes(r) ==
    IF IsNumber(Cell(r, "NUM_BIKES_AVAILABLE")) THEN Cell(r, "NUM_BIKES_AVAILABLE").n ELSE 0

\* Row i of t comes before row j in the stable descending order.
StablyBefore(t, i, j) ==
    \/ Bikes(t.rows[i]) > Bikes(t.rows[j])
    \/ Bikes(t.rows[i]) = Bikes(t.rows[j]) /\ i < j

\* The rows of t in the stable descending order.
StableOrder(t) ==
    [p \in DOMAIN t.rows |->
        CHOOSE i \in DOMAIN t.rows :
            Cardinality({j \in DOMAIN t.rows : StablyBefore(t, j, i)}) = p - 1]

ChartDue ==
    /\ pc \in {"chart", "table", "done"}
    /\ {"STATION_NAME", "NUM_BIKES_AVAILABLE"} \subseteq f.cols

Shortest(a, b) == IF a < b THEN a ELSE b

\* The chart's row p shows row i of f.
Shows(p, i) ==
    /\ top.rows[p].idx = f.rows[i].idx
    /\ top.rows[p].cell["STATION_NAME"] = Cell(f.rows[i], "STATION_NAME")
    /\ top.rows[p].cell["NUM_BIKES_AVAILABLE"] = Num(Bikes(f.rows[i]))

(* C7 as claimed: the chart's data is the first N rows of f sorted by        *)
(* NUM_BIKES_AVAILABLE descending, missing and non-numeric values counted as *)
(* zero, rows of equal value kept in their input order (a stable sort); N is *)
(* the Top N slider's value and lies in [5, 50].                             *)
C7_StableTopN ==
    ChartDue =>
        /\ "chart" \in shown
        /\ widgets.top_n \in 5..50
        /\ Len(top.rows) = Shortest(widgets.top_n, Len(f.rows))
        /\ \A p \in DOMAIN top.rows : Shows(p, StableOrder(f)[p])

(* C7 as amended: the chart's data is the first N rows of f sorted by        *)
(* NUM_BIKES_AVAILABLE descending, missing and non-numeric values counted as *)
(* zero, rows of equal value in no particular order; N is the Top N slider's *)
(* value and lies in [5, 50].                                                *)
C7_TopN ==
    ChartDue =>
        /\ "chart" \in shown
        /\ widgets.top_n \in 5..50
        /\ Len(top.rows) = Shortest(widgets.top_n, Len(f.rows))
        /\ \A p \in DOMAIN top.rows : \E i \in DOMAIN f.rows : Shows(p, i)
        /\ \A p, q \in DOMAIN top.rows : p # q => top.rows[p].idx # top.rows[q].idx
        /\ \A p, q \in DOMAIN top.rows :
              p < q => top.rows[p].cell["NUM_BIKES_AVAILABLE"].n
                         >= top.rows[q].cell["NUM_BIKES_AVAILABLE"].n
        /\ \A i \in DOMAIN f.rows :
              (\A p \in DOMAIN top.rows : top.rows[p].idx # f.rows[i].idx) =>
                  \A p \in DOMAIN top.rows :
                      top.rows[p].cell["NUM_BIKES_AVAILABLE"].n >= Bikes(f.rows[i])

\* Six rows cut to five, a missing value counted as zero among them, and two
\* rows of equal value shown against their input order.
C7_Witness ==
    /\ pc = "chart"
    /\ Len(f.rows) = 6
    /\ widgets.top_n = 5
    /\ Len(top.rows) = 5
    /\ \E i \in DOMAIN f.rows :
          /\ IsNull(Cell(f.rows[i], "NUM_BIKES_AVAILABLE"))
          /\ \E p \in DOMAIN top.rows : top.rows[p].idx = f.rows[i].idx
    /\ \E p \in 1..4 :
          /\ top.rows[p].idx > top.rows[p + 1].idx
          /\ top.rows[p].cell["NUM_BIKES_AVAILABLE"] = top.rows[p + 1].cell["NUM_BIKES_AVAILABLE"]

====
